---- MODULE Spec2Model ----
(***************************************************************************)
(* Model of the voice command monitor (src/main.py): the fuzzy keyword     *)
(* matcher, the ingest loop (audio_worker), the dispatch threads           *)
(* (execute_script), the render loop (create_layout / run) and the signal  *)
(* handler, over the shared state of VoiceCommandMonitor.                  *)
(*                                                                         *)
(* Spec is the whole live mode.  SpecDispatch and SpecRender are its       *)
(* behaviours in which the main thread, respectively every dispatch        *)
(* thread, is not scheduled, and SpecHighlight those of SpecRender without *)
(* a signal; SpecMatch applies the matcher to every table and utterance of *)
(* bounded sets; SpecBuf appends to the two ring buffers beyond their      *)
(* capacities.  SpecParse is main() from the command line to the           *)
(* constructed monitor, SpecModes the test mode and the demo mode,         *)
(* SpecStartup the live mode with a model directory that may be missing    *)
(* and SpecDevice the ingest loop with an audio device that may fail.      *)
(*                                                                         *)
(* Strings are sequences of one-character strings.  A similarity ratio     *)
(* 2.0*M/T is the pair <<2*M, T>>; ratios are compared by cross            *)
(* multiplication, which agrees with the comparison of the correctly       *)
(* rounded doubles for the small M and T of short words.                   *)
(***************************************************************************)
EXTENDS Integers, Sequences, FiniteSets, TLC

VARIABLES
  keywords,            \* self.keywords: ordered table <<[kw, script], ...>>
  running,             \* self.running
  keyword_counts,      \* self.keyword_counts
  keyword_highlighted, \* self.keyword_highlighted
  recognized_words,    \* self.recognized_words, deque(maxlen=50)
  script_log,          \* self.script_log, deque(maxlen=20)
  now,                 \* the wall clock, in seconds
  main_pc,             \* the main thread: run() and its render loop
  ui,                  \* the frame create_layout is building
  aw,                  \* the audio_worker thread
  threads,             \* the execute_script threads, in the order they were started
  utterances,          \* history: the texts the recognizer has finalized
  seen,                \* history: the store states since the current frame began
  buf_n,               \* ring buffer specification: items appended so far
  m_text,              \* matcher specification: the utterance given to the matcher
  m_result,            \* matcher specification: what the matcher returned
  m_pc,                \* matcher specification: "call" before, "returned" after
  argv,                \* args.keywords, the entries given on the command line
  mode,                \* "live", "test" (--test) or "demo" (--demo)
  model_exists,        \* os.path.exists(self.model_path)
  device_ok,           \* the audio stream delivers data; FALSE: every read raises
  errors,              \* the error reports printed so far
  exit_code            \* the exit status of the process, NoExit while it runs

matchVars == <<m_text, m_result, m_pc>>

storeVars == <<keyword_counts, keyword_highlighted, recognized_words, script_log>>

liveVars == <<running, now, main_pc, ui, aw, threads, utterances, seen>>

envVars == <<argv, mode, model_exists, device_ok, errors, exit_code>>

vars == <<keywords, storeVars, liveVars, buf_n, matchVars, envVars>>

----------------------------------------------------------------------------
(* Strings *)

Whitespace == {" ", "\n", "\t"}

\* str.lower() on the alphabet of the model
LowerChar(c) ==
  CASE c = "A" -> "a"
    [] c = "B" -> "b"
    [] c = "C" -> "c"
    [] c = "D" -> "d"
    [] OTHER -> c

Lower(s) == [i \in 1..Len(s) |-> LowerChar(s[i])]

Take(s, n) == SubSeq(s, 1, IF Len(s) < n THEN Len(s) ELSE n)

RECURSIVE LStrip(_)
LStrip(s) ==
  IF s # <<>> /\ Head(s) \in Whitespace THEN LStrip(Tail(s)) ELSE s

RECURSIVE RStrip(_)
RStrip(s) ==
  IF s # <<>> /\ s[Len(s)] \in Whitespace
    THEN RStrip(SubSeq(s, 1, Len(s) - 1))
    ELSE s

\* str.strip()
Strip(s) == RStrip(LStrip(s))

\* str.split(): cut at runs of whitespace, no empty words
RECURSIVE SplitFrom(_, _, _, _)
SplitFrom(s, i, cur, acc) ==
  IF i > Len(s)
    THEN IF cur = <<>> THEN acc ELSE Append(acc, cur)
    ELSE IF s[i] \in Whitespace
      THEN SplitFrom(s, i + 1, <<>>, IF cur = <<>> THEN acc ELSE Append(acc, cur))
      ELSE SplitFrom(s, i + 1, Append(cur, s[i]), acc)

Split(s) == SplitFrom(s, 1, <<>>, <<>>)

\* " ".join(ws)
RECURSIVE JoinWords(_)
JoinWords(ws) ==
  IF ws = <<>> THEN <<>>
  ELSE IF Len(ws) = 1 THEN ws[1]
  ELSE ws[1] \o <<" ">> \o JoinWords(Tail(ws))

----------------------------------------------------------------------------
(* difflib.SequenceMatcher(None, a, b).ratio(), no junk *)

\* length of the common run of a from i and b from j inside a[..ahi], b[..bhi]
RECURSIVE RunLen(_, _, _, _, _, _)
RunLen(a, b, i, j, ahi, bhi) ==
  IF i <= ahi /\ j <= bhi /\ a[i] = b[j]
    THEN 1 + RunLen(a, b, i + 1, j + 1, ahi, bhi)
    ELSE 0

SetMax(S) == CHOOSE x \in S : \A y \in S : y <= x
SetMin(S) == CHOOSE x \in S : \A y \in S : x <= y

\* find_longest_match on a[alo..ahi], b[blo..bhi] (1-based, inclusive):
\* <<i, j, k>>, the longest block; of those the one starting earliest in a,
\* and of those the one starting earliest in b; k = 0 when there is none.
FindLongestMatch(a, b, alo, ahi, blo, bhi) ==
  LET I == alo..ahi
      J == blo..bhi
      best == IF I = {} \/ J = {} THEN 0
              ELSE SetMax({RunLen(a, b, i, j, ahi, bhi) : i \in I, j \in J})
  IN IF best = 0 THEN <<alo, blo, 0>>
     ELSE LET bi == SetMin({i \in I : \E j \in J : RunLen(a, b, i, j, ahi, bhi) = best})
              bj == SetMin({j \in J : RunLen(a, b, bi, j, ahi, bhi) = best})
          IN <<bi, bj, best>>

\* get_matching_blocks: the block, then the pieces left and right of it
RECURSIVE Matches(_, _, _, _, _, _)
Matches(a, b, alo, ahi, blo, bhi) ==
  LET m == FindLongestMatch(a, b, alo, ahi, blo, bhi)
  IN IF m[3] = 0 THEN 0
     ELSE m[3]
          + Matches(a, b, alo, m[1] - 1, blo, m[2] - 1)
          + Matches(a, b, m[1] + m[3], ahi, m[2] + m[3], bhi)

\* ratio(): 2.0 * matches / length, and 1.0 when both are empty
Ratio(a, b) ==
  LET T == Len(a) + Len(b)
  IN IF T = 0 THEN <<1, 1>> ELSE <<2 * Matches(a, b, 1, Len(a), 1, Len(b)), T>>

RatioGT(r, s) == r[1] * s[2] > s[1] * r[2]
RatioEQ(r, s) == r[1] * s[2] = s[1] * r[2]

Threshold == <<4, 5>>      \* 0.8
ZeroRatio == <<0, 1>>      \* 0.0

----------------------------------------------------------------------------
(* self.keywords *)

KeySet(kws) == {kws[i].kw : i \in 1..Len(kws)}

\* self.keywords[keyword]
ScriptOf(kws, k) == kws[CHOOSE i \in 1..Len(kws) : kws[i].kw = k].script

----------------------------------------------------------------------------
(* find_best_keyword_match *)

NoMatch == <<>>            \* None

\* line 114 with ratio >= 0.8
BetterAtThreshold(ratio, best_ratio) ==
  RatioGT(ratio, best_ratio) /\ ~RatioGT(Threshold, ratio)

\* line 114 with ratio >= best_ratio
BetterOrEqual(ratio, best_ratio) ==
  ~RatioGT(best_ratio, ratio) /\ RatioGT(ratio, Threshold)

\* line 114: ratio > best_ratio and ratio > 0.8
Better(ratio, best_ratio) == RatioGT(ratio, best_ratio) /\ RatioGT(ratio, Threshold)

\* the result is <<best_match, best_ratio>>; best_match is None or
\* <<keyword, script, ratio>>
RECURSIVE WordLoop(_, _, _, _, _)
WordLoop(kws, keyword, words, j, st) ==
  IF j > Len(words) THEN st
  ELSE LET ratio == Ratio(Lower(keyword), Lower(words[j]))
       IN WordLoop(kws, keyword, words, j + 1,
                   IF Better(ratio, st[2])
                     THEN << <<keyword, ScriptOf(kws, keyword), ratio>>, ratio >>
                     ELSE st)

RECURSIVE KeywordLoop(_, _, _, _)
KeywordLoop(kws, text, i, st) ==
  IF i > Len(kws) THEN st
  ELSE KeywordLoop(kws, text, i + 1, WordLoop(kws, kws[i].kw, Split(text), 1, st))

find_best_keyword_match(kws, text) == KeywordLoop(kws, text, 1, <<NoMatch, ZeroRatio>>)[1]

----------------------------------------------------------------------------
(* The shared state of VoiceCommandMonitor *)

WordsMaxLen == 50
LogMaxLen == 20

\* a deque(maxlen) that evicts the newest item
DequeAppendDropNewest(d, x, maxlen) == IF Len(d) >= maxlen THEN d ELSE Append(d, x)

\* deque.append on a deque(maxlen=maxlen): append, then drop the oldest
DequeAppend(d, x, maxlen) ==
  LET e == Append(d, x) IN IF Len(e) > maxlen THEN Tail(e) ELSE e

StartTime == 2             \* time.time() when the monitor is constructed

\* __init__: the state of a monitor constructed over the table kws
Constructed(kws) ==
  /\ keywords = kws
  /\ running = TRUE
  /\ keyword_counts = [k \in KeySet(kws) |-> 0]
  /\ keyword_highlighted = [k \in KeySet(kws) |-> 0]
  /\ recognized_words = <<>>
  /\ script_log = <<>>
  /\ now = StartTime
  /\ main_pc = "main"
  /\ ui = <<>>
  /\ aw = [pc |-> "unstarted", text |-> <<>>, i |-> 0, match |-> NoMatch]
  /\ threads = <<>>
  /\ utterances = <<>>
  /\ seen = {}

NoExit == <<>>             \* the process has not ended

\* the command line that parse_keywords turns into the table kws
ArgvOf(kws) == [i \in 1..Len(kws) |-> kws[i].kw \o <<":">> \o kws[i].script]

\* main() went to run() (line 322) with the table kws; the model directory
\* exists and the audio device works
NormalStart(kws) ==
  /\ argv = ArgvOf(kws)
  /\ mode = "live"
  /\ model_exists = TRUE
  /\ device_ok = TRUE
  /\ errors = <<>>
  /\ exit_code = NoExit

----------------------------------------------------------------------------
(* execute_script *)

\* lines 125-126 without the test for './'
ResolvePathUnlessAbsolute(script_path) ==
  IF ~(script_path # <<>> /\ script_path[1] = "/")
    THEN <<".", "/">> \o script_path
    ELSE script_path

\* lines 125-126: neither absolute nor already './'-prefixed gets './'
ResolvePath(script_path) ==
  IF ~(script_path # <<>> /\ script_path[1] = "/")
     /\ ~(Len(script_path) >= 2 /\ SubSeq(script_path, 1, 2) = <<".", "/">>)
    THEN <<".", "/">> \o script_path
    ELSE script_path

Msg_timed_out ==
  <<"S","c","r","i","p","t"," ","t","i","m","e","d"," ","o","u","t">>

Msg_not_found ==
  <<"S","c","r","i","p","t"," ","n","o","t"," ","f","o","u","n","d",":"," ">>

\* str(CalledProcessError): Command '['<path>']' returned non-zero exit status 1.
StrCalledProcessError(script_path) ==
  <<"C","o","m","m","a","n","d"," ","'","[","'">> \o script_path
  \o <<"'","]","'"," ","r","e","t","u","r","n","e","d"," ","n","o","n","-",
       "z","e","r","o"," ","e","x","i","t"," ","s","t","a","t","u","s"," ","1",".">>

Out_ok   == <<" ", "o", "k", "\n">>

\* what subprocess.run can do: return with exit code 0, raise
\* CalledProcessError (check=True), TimeoutExpired, FileNotFoundError, or
\* another OSError such as PermissionError for a file that is not executable
Outcomes ==
  [kind : {"exit0"}, text : {Out_ok}]
  \cup [kind : {"nonzero"}, text : {<<>>}]
  \cup [kind : {"timeout", "notfound", "oserror"}, text : {<<>>}]

\* lines 128-140: the try statement; raised is an exception no clause catches
RunScript(script_path, o) ==
  CASE o.kind = "exit0" ->
         [raised |-> FALSE, status |-> "SUCCESS",
          output |-> IF o.text # <<>> THEN Strip(o.text) ELSE <<>>]
    [] o.kind = "timeout" ->
         [raised |-> FALSE, status |-> "TIMEOUT", output |-> Msg_timed_out]
    [] o.kind = "nonzero" ->
         [raised |-> FALSE, status |-> "ERROR",
          output |-> IF o.text # <<>> THEN Strip(o.text)
                     ELSE StrCalledProcessError(script_path)]
    [] o.kind = "notfound" ->
         [raised |-> FALSE, status |-> "NOT_FOUND",
          output |-> Msg_not_found \o script_path]
    [] OTHER ->
         [raised |-> TRUE, status |-> "", output |-> <<>>]

SnippetLen == 50
Separator == <<" ", "|", " ">>
Ellipsis == <<".", ".", ".">>

\* lines 143-145: "[timestamp] keyword -> status", then " | output[:50]..."
LogEntry(timestamp, keyword, status, output) ==
  [timestamp |-> timestamp, keyword |-> keyword, status |-> status,
   rest |-> IF output # <<>>
              THEN Separator \o Take(output, SnippetLen) \o Ellipsis
              ELSE <<>>]

----------------------------------------------------------------------------
(* The matcher alone: every table and utterance of the bounded sets *)

Str_abc  == <<"a", "b", "c">>
Str_abd  == <<"a", "b", "d">>
Str_ab   == <<"a", "b">>
Str_abcd == <<"a", "b", "c", "d">>
Str_bcab == <<"b", "c", "a", "b">>
Str_abcb == <<"a", "b", "c", "b">>
Str_ABC  == <<"A", "B", "C">>
Str_x    == <<"x">>

Script_x == <<".", "/", "x">>
Script_y == <<".", "/", "y">>
Script_z == <<".", "/", "z">>

MatchTables ==
  { << [kw |-> Str_abc, script |-> Script_x], [kw |-> Str_abd, script |-> Script_y] >>,
    << [kw |-> Str_abd, script |-> Script_y], [kw |-> Str_abc, script |-> Script_x] >>,
    << [kw |-> Str_ab, script |-> Script_z], [kw |-> Str_ABC, script |-> Script_x] >>,
    << [kw |-> Str_abcb, script |-> Script_z] >>,
    << [kw |-> <<>>, script |-> Script_z] >> }

MatchWords == {Str_abc, Str_abd, Str_ab, Str_abcd, Str_bcab, Str_abcb, Str_x}

MaxWords == 2

WordSeqs(n) == UNION {[1..k -> MatchWords] : k \in 0..n}

MatchTexts == {JoinWords(ws) : ws \in WordSeqs(MaxWords)}

InitMatch ==
  /\ \E kws \in MatchTables : Constructed(kws) /\ NormalStart(kws)
  /\ buf_n = <<0, 0>>
  /\ m_text \in MatchTexts
  /\ m_result = NoMatch
  /\ m_pc = "call"

\* a matcher that counts the trigger itself
CallMatchCounting ==
  /\ m_pc = "call"
  /\ m_result' = find_best_keyword_match(keywords, m_text)
  /\ m_pc' = "returned"
  /\ keyword_counts' = IF m_result' = NoMatch THEN keyword_counts
                       ELSE [keyword_counts EXCEPT ![m_result'[1]] = @ + 1]
  /\ UNCHANGED <<keywords, keyword_highlighted, recognized_words, script_log,
                 liveVars, buf_n, m_text, envVars>>

\* lines 105-118: the matcher is called with the table and the utterance
CallMatch ==
  /\ m_pc = "call"
  /\ m_result' = find_best_keyword_match(keywords, m_text)
  /\ m_pc' = "returned"
  /\ UNCHANGED <<keywords, storeVars, liveVars, buf_n, m_text, envVars>>

\* lines 105-118: it is called once more with the same table and utterance
CallMatchAgain ==
  /\ m_pc = "returned"
  /\ m_result' = find_best_keyword_match(keywords, m_text)
  /\ m_pc' = "again"
  /\ UNCHANGED <<keywords, storeVars, liveVars, buf_n, m_text, envVars>>

NextMatch == CallMatch \/ CallMatchAgain

SpecMatch == InitMatch /\ [][NextMatch]_vars

----------------------------------------------------------------------------
(* Live mode: run(), audio_worker, the execute_script threads, the signal  *)
(* handler and the clock                                                   *)

MaxUtterances == 2         \* utterances the recognizer finalizes
MaxTicks == 1              \* seconds the clock advances
HighlightDuration == 1     \* --highlight-duration, default 1.0

LiveTable ==
  << [kw |-> Str_abc, script |-> Script_x], [kw |-> Str_abd, script |-> Script_y] >>

\* what rec.Result() can hold: nothing, a word that matches no keyword, a
\* word that matches one keyword, two words that match one keyword each
RawTexts ==
  { <<>>, Str_x, Str_abd, <<"A", "b", "d", " ", "a", "b", "c", " ">> }

Init ==
  /\ Constructed(LiveTable)
  /\ NormalStart(LiveTable)
  /\ buf_n = <<0, 0>>
  /\ m_text = <<>>
  /\ m_result = NoMatch
  /\ m_pc = "call"

\* the process is alive: main() has not returned.  Every other thread is a
\* daemon (line 227; a thread inherits it from the thread that starts it)
\* and stops where it is when the main thread ends.
Alive == main_pc # "exited"

Store ==
  [counts |-> keyword_counts, hl |-> keyword_highlighted,
   words |-> recognized_words, log |-> script_log]

StoreNext ==
  [counts |-> keyword_counts', hl |-> keyword_highlighted',
   words |-> recognized_words', log |-> script_log']

Building == main_pc \in {"kw_count", "kw_hl", "scrolling", "log"}

\* history: a store state that existed while the current frame was built
Observe == seen' = IF Building THEN seen \cup {StoreNext} ELSE seen

(* the clock and the signals *)

Tick ==
  /\ Alive
  /\ now < StartTime + MaxTicks
  /\ now' = now + 1
  /\ UNCHANGED <<keywords, storeVars, running, main_pc, ui, aw, threads,
                 utterances, seen, buf_n, matchVars, envVars>>

\* lines 52-53: SIGINT or SIGQUIT
signal_handler ==
  /\ Alive
  /\ running' = FALSE
  /\ UNCHANGED <<keywords, storeVars, now, main_pc, ui, aw, threads,
                 utterances, seen, buf_n, matchVars, envVars>>

(* audio_worker *)

AwAt(pc) == [pc |-> pc, text |-> <<>>, i |-> 0, match |-> NoMatch]

\* lines 56, 61-63, 67-73: the model directory exists; the recognizer is set
\* up and the stream opened
AwSetup ==
  /\ Alive
  /\ aw.pc = "setup"
  /\ model_exists
  /\ aw' = AwAt("loop")
  /\ UNCHANGED <<keywords, storeVars, running, now, main_pc, ui, threads,
                 utterances, seen, buf_n, matchVars, envVars>>

\* a loop that waits for the dispatch threads before it reads on
AwReadAfterJoin ==
  /\ Alive
  /\ aw.pc = "loop"
  /\ running
  /\ device_ok
  /\ Len(utterances) < MaxUtterances
  /\ \A t \in 1..Len(threads) : threads[t].pc \in {"done", "died"}
  /\ \E raw \in RawTexts :
       LET text == Strip(Lower(raw))
       IN /\ utterances' = Append(utterances, raw)
          /\ aw' = IF text # <<>>
                     THEN [pc |-> "words", text |-> text, i |-> 1, match |-> NoMatch]
                     ELSE [pc |-> "loop", text |-> <<>>, i |-> 0, match |-> NoMatch]
  /\ UNCHANGED <<keywords, storeVars, running, now, main_pc, ui, threads,
                 seen, buf_n, matchVars, envVars>>

\* lines 75-81: the loop test, a read that returns data, and a finalized
\* result; an empty text is dropped
AwRead ==
  /\ Alive
  /\ aw.pc = "loop"
  /\ running
  /\ device_ok
  /\ Len(utterances) < MaxUtterances
  /\ \E raw \in RawTexts :
       LET text == Strip(Lower(raw))
       IN /\ utterances' = Append(utterances, raw)
          /\ aw' = IF text # <<>>
                     THEN [pc |-> "words", text |-> text, i |-> 1, match |-> NoMatch]
                     ELSE AwAt("loop")
  /\ UNCHANGED <<keywords, storeVars, running, now, main_pc, ui, threads,
                 seen, buf_n, matchVars, envVars>>

\* lines 84-89: one word appended; after the last one the matcher is called
AwAppendWord ==
  /\ Alive
  /\ aw.pc = "words"
  /\ LET words == Split(aw.text)
         best_match == find_best_keyword_match(keywords, aw.text)
     IN /\ recognized_words' = DequeAppend(recognized_words, words[aw.i], WordsMaxLen)
        /\ aw' = IF aw.i < Len(words) THEN [aw EXCEPT !.i = aw.i + 1]
                 ELSE IF best_match # NoMatch
                   THEN [aw EXCEPT !.pc = "count", !.match = best_match]
                   ELSE AwAt("loop")
  /\ UNCHANGED <<keywords, keyword_counts, keyword_highlighted, script_log>>
  /\ Observe
  /\ UNCHANGED <<running, now, main_pc, ui, threads, utterances, buf_n,
                 matchVars, envVars>>

\* line 91: self.keyword_counts[keyword] += 1
AwCount ==
  /\ Alive
  /\ aw.pc = "count"
  /\ keyword_counts' = [keyword_counts EXCEPT ![aw.match[1]] = @ + 1]
  /\ aw' = [aw EXCEPT !.pc = "highlight"]
  /\ UNCHANGED <<keywords, keyword_highlighted, recognized_words, script_log>>
  /\ Observe
  /\ UNCHANGED <<running, now, main_pc, ui, threads, utterances, buf_n,
                 matchVars, envVars>>

\* line 92: self.keyword_highlighted[keyword] = time.time()
AwHighlight ==
  /\ Alive
  /\ aw.pc = "highlight"
  /\ keyword_highlighted' = [keyword_highlighted EXCEPT ![aw.match[1]] = now]
  /\ aw' = [aw EXCEPT !.pc = "spawn"]
  /\ UNCHANGED <<keywords, keyword_counts, recognized_words, script_log>>
  /\ Observe
  /\ UNCHANGED <<running, now, main_pc, ui, threads, utterances, buf_n,
                 matchVars, envVars>>

NewThread(keyword, script, utt) ==
  [keyword |-> keyword, script_path |-> script, utt |-> utt, pc |-> "new",
   timestamp |-> 0, launched |-> 0, appended |-> 0,
   outcome |-> <<>>, entry |-> <<>>]

\* a spawn that puts the new thread before the ones started earlier
StartThreadFirst(ts, keyword, script, utt) == <<NewThread(keyword, script, utt)>> \o ts

\* a spawn that starts two threads for one match
StartThreadTwice(ts, keyword, script, utt) ==
  Append(Append(ts, NewThread(keyword, script, utt)), NewThread(keyword, script, utt))

\* line 95: threading.Thread(target=self.execute_script, args=(keyword, script)).start()
StartThread(ts, keyword, script, utt) == Append(ts, NewThread(keyword, script, utt))

AwSpawn ==
  /\ Alive
  /\ aw.pc = "spawn"
  /\ threads' = StartThread(threads, aw.match[1], aw.match[2], Len(utterances))
  /\ aw' = AwAt("loop")
  /\ UNCHANGED <<keywords, storeVars, running, now, main_pc, ui,
                 utterances, seen, buf_n, matchVars, envVars>>

\* lines 75, 101-103: the loop test fails; the stream and the device are released
AwStop ==
  /\ Alive
  /\ aw.pc = "loop"
  /\ ~running
  /\ aw' = AwAt("closed")
  /\ UNCHANGED <<keywords, storeVars, running, now, main_pc, ui, threads,
                 utterances, seen, buf_n, matchVars, envVars>>

(* execute_script in its own thread *)

\* lines 122-129: the timestamp, the path, and the command is launched
ExecBegin(t) ==
  /\ Alive
  /\ threads[t].pc = "new"
  /\ threads' = [threads EXCEPT ![t].pc = "running",
                                ![t].timestamp = now,
                                ![t].script_path = ResolvePath(@),
                                ![t].launched = @ + 1]
  /\ UNCHANGED <<keywords, storeVars, running, now, main_pc, ui, aw,
                 utterances, seen, buf_n, matchVars, envVars>>

\* a completion that also counts the trigger
CompletionCounts(counts, keyword) == [counts EXCEPT ![keyword] = @ + 1]

\* lines 130-146 leave self.keyword_counts alone
CountsAfterCompletion(counts, keyword) == counts

\* lines 129-146: the command ends one way or another; the entry is appended,
\* unless an exception no clause catches ends the thread
ExecEnd(t) ==
  /\ Alive
  /\ threads[t].pc = "running"
  /\ \E o \in Outcomes :
       LET th == threads[t]
           r == RunScript(th.script_path, o)
           log_entry == LogEntry(th.timestamp, th.keyword, r.status, r.output)
       IN IF r.raised
            THEN /\ threads' = [threads EXCEPT ![t].pc = "died", ![t].outcome = <<o>>]
                 /\ UNCHANGED storeVars
            ELSE /\ script_log' = DequeAppend(script_log, log_entry, LogMaxLen)
                 /\ keyword_counts' = CountsAfterCompletion(keyword_counts, th.keyword)
                 /\ threads' = [threads EXCEPT ![t].pc = "done",
                                               ![t].outcome = <<o>>,
                                               ![t].entry = <<log_entry>>,
                                               ![t].appended = @ + 1]
                 /\ UNCHANGED <<keyword_highlighted, recognized_words>>
  /\ Observe
  /\ UNCHANGED <<keywords, running, now, main_pc, ui, aw, utterances,
                 buf_n, matchVars, envVars>>

(* run(): the main thread *)

Placeholder_words == <<"[dim]Waiting for speech...[/dim]">>
Placeholder_log == <<"[dim]No script executions yet[/dim]">>
ShownWords == 20

LastN(s, n) == IF Len(s) <= n THEN s ELSE SubSeq(s, Len(s) - n + 1, Len(s))

\* line 151: create_layout begins, create_keyword_panels reads the clock
BeginFrame(current_time) ==
  [current_time |-> current_time, k |-> 1, count |-> 0,
   panels |-> <<>>, scrolling |-> <<>>, log_text |-> <<>>]

FirstPart == IF Len(keywords) = 0 THEN "scrolling" ELSE "kw_count"

\* lines 319-322, 227-228: neither --test nor --demo; the audio thread is started
RunStart ==
  /\ main_pc = "main"
  /\ mode = "live"
  /\ aw' = AwAt("setup")
  /\ main_pc' = "live"
  /\ UNCHANGED <<keywords, storeVars, running, now, ui, threads,
                 utterances, seen, buf_n, matchVars, envVars>>

\* line 231: Live(self.create_layout(), ...), the first create_layout begins
LiveEnter ==
  /\ main_pc = "live"
  /\ ui' = BeginFrame(now)
  /\ main_pc' = FirstPart
  /\ seen' = {Store}
  /\ UNCHANGED <<keywords, storeVars, running, now, aw, threads,
                 utterances, buf_n, matchVars, envVars>>

\* line 154: count = self.keyword_counts[keyword]
RenderCount ==
  /\ main_pc = "kw_count"
  /\ ui' = [ui EXCEPT !.count = keyword_counts[keywords[ui.k].kw]]
  /\ main_pc' = "kw_hl"
  /\ UNCHANGED <<keywords, storeVars, running, now, aw, threads,
                 utterances, seen, buf_n, matchVars, envVars>>

\* line 155 with <= in place of <
IsHighlightedInclusive(current_time, highlighted) ==
  current_time - highlighted <= HighlightDuration

\* line 155
IsHighlighted(current_time, highlighted) ==
  current_time - highlighted < HighlightDuration

\* lines 155-171: the highlight is read and the panel is built
RenderHighlight ==
  /\ main_pc = "kw_hl"
  /\ LET keyword == keywords[ui.k].kw
     IN ui' = [ui EXCEPT
                 !.panels = Append(@, [keyword |-> keyword, count |-> ui.count,
                                       highlighted |-> IsHighlighted(ui.current_time,
                                                          keyword_highlighted[keyword])]),
                 !.k = @ + 1,
                 !.count = 0]
  /\ main_pc' = IF ui.k < Len(keywords) THEN "kw_count" ELSE "scrolling"
  /\ UNCHANGED <<keywords, storeVars, running, now, aw, threads,
                 utterances, seen, buf_n, matchVars, envVars>>

\* lines 177-181
ScrollingText(words) ==
  IF words = <<>> THEN Placeholder_words ELSE JoinWords(LastN(words, ShownWords))

\* lines 191-194
LogText(log) == IF log = <<>> THEN Placeholder_log ELSE log

\* line 216: create_scrolling_text
RenderWords ==
  /\ main_pc = "scrolling"
  /\ ui' = [ui EXCEPT !.scrolling = ScrollingText(recognized_words)]
  /\ main_pc' = "log"
  /\ UNCHANGED <<keywords, storeVars, running, now, aw, threads,
                 utterances, seen, buf_n, matchVars, envVars>>

\* line 217: create_script_log; the layout is complete
RenderLog ==
  /\ main_pc = "log"
  /\ ui' = [ui EXCEPT !.log_text = LogText(script_log)]
  /\ main_pc' = "update"
  /\ UNCHANGED <<keywords, storeVars, running, now, aw, threads,
                 utterances, seen, buf_n, matchVars, envVars>>

FrameOf(u) == [panels |-> u.panels, scrolling |-> u.scrolling, log_text |-> u.log_text]

\* lines 231, 233-234: the frame goes to Live, outside the model, then the sleep
LiveUpdate ==
  /\ main_pc = "update"
  /\ ui' = <<>>
  /\ seen' = {}
  /\ main_pc' = "check"
  /\ UNCHANGED <<keywords, storeVars, running, now, aw, threads, utterances,
                 buf_n, matchVars, envVars>>

\* line 232: while self.running, and the next create_layout begins
LoopCheck ==
  /\ main_pc = "check"
  /\ IF running
       THEN /\ ui' = BeginFrame(now)
            /\ main_pc' = FirstPart
            /\ seen' = {Store}
       ELSE /\ main_pc' = "shutdown"
            /\ UNCHANGED <<ui, seen>>
  /\ UNCHANGED <<keywords, storeVars, running, now, aw, threads,
                 utterances, buf_n, matchVars, envVars>>

\* lines 236, 322: Live is left, run() and main() return, the process ends
Exit ==
  /\ main_pc = "shutdown"
  /\ main_pc' = "exited"
  /\ exit_code' = <<0>>
  /\ UNCHANGED <<keywords, storeVars, running, now, ui, aw, threads,
                 utterances, seen, buf_n, matchVars>>
  /\ UNCHANGED <<argv, mode, model_exists, device_ok, errors>>

(* the steps of each thread *)

Environment == Tick \/ signal_handler

Ingest == AwSetup \/ AwRead \/ AwAppendWord \/ AwCount \/ AwHighlight \/ AwSpawn \/ AwStop

Dispatch ==
  \/ \E t \in 1..Len(threads) : ExecBegin(t)
  \/ \E t \in 1..Len(threads) : ExecEnd(t)

Render ==
  \/ LiveEnter
  \/ RenderCount
  \/ RenderHighlight
  \/ RenderWords
  \/ RenderLog
  \/ LiveUpdate
  \/ LoopCheck
  \/ Exit

Next == Environment \/ RunStart \/ Ingest \/ Dispatch \/ Render

Spec == Init /\ [][Next]_vars

\* The ingest thread and the dispatch threads while the main thread stays
\* between line 228 and line 231: the render steps write ui, seen and
\* main_pc only, and no ingest or dispatch step reads the first three.
NextDispatch == Environment \/ RunStart \/ Ingest \/ Dispatch

SpecDispatch == Init /\ [][NextDispatch]_vars

\* The main thread and the ingest thread while no dispatch thread is
\* scheduled: the dispatch steps write threads, script_log only.
NextRender == Environment \/ RunStart \/ Ingest \/ Render

SpecRender == Init /\ [][NextRender]_vars

----------------------------------------------------------------------------
(* The two ring buffers alone.  deque.append runs under the interpreter    *)
(* lock, so the appends of the ingest thread and of the dispatch threads   *)
(* happen one after the other in some order.  The n-th appended item is n. *)

BufExtra == 3              \* appends beyond the capacity

InitBuf ==
  /\ Constructed(LiveTable)
  /\ NormalStart(LiveTable)
  /\ buf_n = <<0, 0>>
  /\ m_text = <<>>
  /\ m_result = NoMatch
  /\ m_pc = "call"

\* line 85: self.recognized_words.append(word)
BufAppendWord ==
  /\ buf_n[1] < WordsMaxLen + BufExtra
  /\ recognized_words' = DequeAppend(recognized_words, buf_n[1] + 1, WordsMaxLen)
  /\ buf_n' = <<buf_n[1] + 1, buf_n[2]>>
  /\ UNCHANGED <<keywords, keyword_counts, keyword_highlighted, script_log,
                 liveVars, matchVars, envVars>>

\* line 146: self.script_log.append(log_entry)
BufAppendLog ==
  /\ buf_n[2] < LogMaxLen + BufExtra
  /\ script_log' = DequeAppend(script_log, buf_n[2] + 1, LogMaxLen)
  /\ buf_n' = <<buf_n[1], buf_n[2] + 1>>
  /\ UNCHANGED <<keywords, keyword_counts, keyword_highlighted, recognized_words,
                 liveVars, matchVars, envVars>>

NextBuf == BufAppendWord \/ BufAppendLog

SpecBuf == InitBuf /\ [][NextBuf]_vars

\* the last min(n, cap) of the n items appended so far, in arrival order
MostRecent(n, cap) ==
  LET k == IF n < cap THEN n ELSE cap IN [i \in 1..k |-> n - k + i]

\* C3: each buffer stays within its capacity (50 words, 20 executions) and
\* holds exactly the most recently appended min(n, capacity) items in the
\* order of their appends.
C3_RingBuffersKeepMostRecent ==
  /\ Len(recognized_words) <= 50
  /\ Len(script_log) <= 20
  /\ recognized_words = MostRecent(buf_n[1], 50)
  /\ script_log = MostRecent(buf_n[2], 20)

\* both buffers have evicted
C3_Witness ==
  /\ buf_n[1] > 50 /\ Len(recognized_words) = 50
  /\ buf_n[2] > 20 /\ Len(script_log) = 20

----------------------------------------------------------------------------
(* Claims about the matcher *)

\* the (keyword index, word index) pairs of a table and an utterance
Pairs(kws, text) == (1..Len(kws)) \X (1..Len(Split(text)))

PairRatio(kws, text, p) == Ratio(Lower(kws[p[1]].kw), Lower(Split(text)[p[2]]))

IsMaxPair(kws, text, p) ==
  \A q \in Pairs(kws, text) : ~RatioGT(PairRatio(kws, text, q), PairRatio(kws, text, p))

\* C5: find_best_keyword_match returns a result iff some (keyword, word) pair
\* has similarity strictly above 0.8; the result's keyword belongs to a pair
\* of maximum similarity, its command is the one configured for that keyword
\* and its similarity is that maximum.
C5_MatchIffAboveThreshold ==
  m_pc = "returned" =>
    /\ (m_result # NoMatch) <=>
          (\E p \in Pairs(keywords, m_text) :
              RatioGT(PairRatio(keywords, m_text, p), Threshold))
    /\ m_result # NoMatch =>
          \E p \in Pairs(keywords, m_text) :
            /\ IsMaxPair(keywords, m_text, p)
            /\ keywords[p[1]].kw = m_result[1]
            /\ keywords[p[1]].script = m_result[2]
            /\ RatioEQ(m_result[3], PairRatio(keywords, m_text, p))

\* a result was returned although another pair sits exactly at 0.8
C5_Witness ==
  /\ m_pc = "returned"
  /\ m_result # NoMatch
  /\ \E p \in Pairs(keywords, m_text) :
        RatioEQ(PairRatio(keywords, m_text, p), Threshold)

\* the keywords that reach the maximum similarity of the utterance
MaxKeywordIndexes(kws, text) ==
  {p[1] : p \in {q \in Pairs(kws, text) : IsMaxPair(kws, text, q)}}

\* C6: when several keywords reach the same maximum similarity above 0.8,
\* the first of them in table order is returned, wherever the matching words
\* stand in the utterance.
C6_TieKeepsFirstKeyword ==
  (m_pc = "returned" /\ m_result # NoMatch) =>
    m_result[1] = keywords[SetMin(MaxKeywordIndexes(keywords, m_text))].kw

\* two keywords tie at the maximum and the word of the later keyword comes
\* first in the utterance
C6_Witness ==
  /\ m_pc = "returned"
  /\ m_result # NoMatch
  /\ \E p, q \in Pairs(keywords, m_text) :
        /\ IsMaxPair(keywords, m_text, p) /\ IsMaxPair(keywords, m_text, q)
        /\ p[1] < q[1] /\ q[2] < p[2]
        /\ \A r \in Pairs(keywords, m_text) :
              (IsMaxPair(keywords, m_text, r) /\ r[1] = p[1]) => r[2] > q[2]
        /\ m_result[1] = keywords[p[1]].kw

----------------------------------------------------------------------------
(* Claims about the ingest loop and the dispatch threads *)

ThreadIds == 1..Len(threads)

Ended(t) == threads[t].pc \in {"done", "died"}

\* the text the ingest loop made of the u-th finalized result (line 80)
TextOf(u) == Strip(Lower(utterances[u]))

\* the ingest loop is through with the u-th utterance
Processed(u) == u < Len(utterances) \/ aw.pc \in {"loop", "closed"}

\* C1: every dispatch appends exactly one execution record, whatever way
\* launching and running the command ends; no dispatch ends without a record
\* and none appends two.
C1_ExactlyOneRecordPerDispatch ==
  \A t \in ThreadIds :
    /\ threads[t].appended <= 1
    /\ Ended(t) => threads[t].appended = 1

\* what the matcher of line 88 returns for each text the recognizer can
\* finalize, over the configured table
BestOfRaw ==
  [raw \in RawTexts |-> find_best_keyword_match(LiveTable, Strip(Lower(raw)))]

\* C2: an utterance spawns at most one dispatch, the one for the keyword the
\* matcher returned; an utterance without a match spawns none.
C2_AtMostOneDispatchPerUtterance ==
  /\ keywords = LiveTable
  /\ \A u \in 1..Len(utterances) :
       LET spawned == {t \in ThreadIds : threads[t].utt = u}
           best == BestOfRaw[utterances[u]]
       IN /\ Cardinality(spawned) <= 1
          /\ (best = NoMatch) => spawned = {}
          /\ \A t \in spawned :
               /\ threads[t].keyword = best[1]
               /\ threads[t].script_path = ResolvePath(best[2])
  /\ \A t \in ThreadIds : threads[t].utt \in 1..Len(utterances)

\* the keywords some word of the text matches above the threshold
MatchedKeywords(text) ==
  {i \in 1..Len(keywords) :
     \E j \in 1..Len(Split(text)) :
       RatioGT(Ratio(Lower(keywords[i].kw), Lower(Split(text)[j])), Threshold)}

\* an utterance of two words that match two keywords has spawned its one dispatch
C2_Witness ==
  \E u \in 1..Len(utterances) :
    /\ Processed(u)
    /\ Cardinality(MatchedKeywords(TextOf(u))) >= 2
    /\ Cardinality({t \in ThreadIds : threads[t].utt = u}) = 1

StartedFor(k) == Cardinality({t \in ThreadIds : threads[t].keyword = k})

CompletedFor(k) ==
  Cardinality({t \in ThreadIds : threads[t].keyword = k /\ threads[t].pc = "done"})

\* the utterances matched to k that have passed line 91
MatchesFor(k) ==
  Cardinality({u \in 1..Len(utterances) :
                 /\ BestOfRaw[utterances[u]] # NoMatch
                 /\ BestOfRaw[utterances[u]][1] = k
                 /\ Processed(u) \/ aw.pc \in {"highlight", "spawn"}})

C7_EveryDispatchEndsInOneStatus ==
  \A t \in ThreadIds :
    /\ threads[t].pc # "new" => threads[t].launched = 1
    /\ Ended(t) =>
         /\ threads[t].entry # <<>>
         /\ LET status == threads[t].entry[1].status
                kind == threads[t].outcome[1].kind
            IN /\ status \in {"SUCCESS", "ERROR", "TIMEOUT", "NOT_FOUND"}
               /\ (status = "SUCCESS") <=> (kind = "exit0")
               /\ (status = "ERROR") <=> (kind = "nonzero")
               /\ (status = "TIMEOUT") <=> (kind = "timeout")
               /\ (status = "NOT_FOUND") <=> (kind = "notfound")

\* C8: the record holds at most 50 characters of the output, followed by the
\* ellipsis exactly when the output was longer than that; an empty output
\* adds nothing.
C8_EllipsisOnlyWhenTruncated ==
  \A t \in ThreadIds :
    threads[t].entry # <<>> =>
      LET output == RunScript(threads[t].script_path, threads[t].outcome[1]).output
      IN threads[t].entry[1].rest =
           IF output = <<>> THEN <<>>
           ELSE Separator \o Take(output, 50)
                \o (IF Len(output) > 50 THEN Ellipsis ELSE <<>>)

----------------------------------------------------------------------------
(* Claims about the render loop and the shutdown *)

\* the frame create_layout makes of the store state s at current_time
RenderOf(s, current_time) ==
  [panels |-> [i \in 1..Len(keywords) |->
                 [keyword |-> keywords[i].kw,
                  count |-> s.counts[keywords[i].kw],
                  highlighted |-> IsHighlighted(current_time, s.hl[keywords[i].kw])]],
   scrolling |-> ScrollingText(s.words),
   log_text |-> LogText(s.log)]

\* C9: every frame is the picture of one state the store was in while the
\* frame was built.
C9_FrameIsOneStoreState ==
  main_pc = "update" =>
    \E s \in seen : FrameOf(ui) = RenderOf(s, ui.current_time)

\* C10: after a signal that arrives while the monitor is running (the ingest
\* loop has read an utterance), the render loop stops, and the process ends,
\* only after the ingest thread has left its loop and released the stream
\* and the device.  run() has no wait for the thread, so no wait can expire.
C10_RenderStopsAfterIngestEnded ==
  (utterances # <<>> /\ main_pc \in {"shutdown", "exited"}) => aw.pc = "closed"

----------------------------------------------------------------------------
(* Start of the live mode when the model directory may be missing *)

Msg_model_not_found == <<"Model not found">>

InitStartup ==
  /\ Constructed(LiveTable)
  /\ argv = ArgvOf(LiveTable)
  /\ mode = "live"
  /\ model_exists \in BOOLEAN
  /\ device_ok = TRUE
  /\ errors = <<>>
  /\ exit_code = NoExit
  /\ buf_n = <<0, 0>>
  /\ m_text = <<>>
  /\ m_result = NoMatch
  /\ m_pc = "call"

\* lines 56-59, 67: the model directory is missing; the messages are printed
\* and sys.exit(1) raises SystemExit in the thread that called it, the audio
\* thread, which threading ends silently
AwSetupFail ==
  /\ Alive
  /\ aw.pc = "setup"
  /\ ~model_exists
  /\ errors' = Append(errors, Msg_model_not_found)
  /\ aw' = AwAt("ended")
  /\ UNCHANGED <<keywords, storeVars, running, now, main_pc, ui, threads,
                 utterances, seen, buf_n, matchVars>>
  /\ UNCHANGED <<argv, mode, model_exists, device_ok, exit_code>>

NextStartup == Environment \/ RunStart \/ Ingest \/ AwSetupFail \/ Render

SpecStartup == InitStartup /\ [][NextStartup]_vars

\* C11: when the model path does not exist at the start of the live mode,
\* the error is reported and the whole process ends with exit code 1: once
\* the missing model has been reported no render loop is running, and the
\* process ends with that code.
C11_MissingModelEndsProcess ==
  (~model_exists /\ errors # <<>>) =>
    /\ ~(Building \/ main_pc \in {"update", "check"})
    /\ main_pc = "exited" => exit_code = <<1>>

----------------------------------------------------------------------------
(* The highlight: the live mode while no signal arrives and no dispatch    *)
(* thread is scheduled                                                     *)

NextHighlight ==
  \/ Tick
  \/ RunStart
  \/ AwSetup \/ AwRead \/ AwAppendWord \/ AwCount \/ AwHighlight \/ AwSpawn
  \/ LiveEnter \/ RenderCount \/ RenderHighlight \/ RenderWords \/ RenderLog
  \/ LiveUpdate \/ LoopCheck

SpecHighlight == Init /\ [][NextHighlight]_vars

\* the utterances matched to k whose match has passed line 92
TriggersOf(k) ==
  {u \in 1..Len(utterances) :
     /\ BestOfRaw[utterances[u]] # NoMatch
     /\ BestOfRaw[utterances[u]][1] = k
     /\ Processed(u) \/ aw.pc = "spawn"}

----------------------------------------------------------------------------
(* Claims about the concurrency of ingest and dispatch *)

InFlight == {t \in ThreadIds : threads[t].pc = "running"}

\* C13: a dispatch never blocks the ingest path: whatever the dispatch
\* threads are doing, the ingest loop can take its next step, so that an
\* utterance is read, matched and dispatched while earlier dispatches, of the
\* same or of other keywords, are in flight; nothing caps their number.
C13_DispatchNeverBlocksIngest ==
  /\ (Alive /\ running /\ aw.pc = "loop" /\ Len(utterances) < MaxUtterances)
       => ENABLED AwRead
  /\ (Alive /\ aw.pc \in {"count", "highlight", "spawn"})
       => ENABLED (AwCount \/ AwHighlight \/ AwSpawn)
  /\ \A t \in ThreadIds : threads[t].pc = "new" => ENABLED ExecBegin(t)

\* two dispatches of one keyword are running at once, and the second was
\* matched after the first had launched its command
C13_Witness ==
  \E t1, t2 \in InFlight :
    /\ t1 < t2
    /\ threads[t1].keyword = threads[t2].keyword
    /\ threads[t1].timestamp < keyword_highlighted[threads[t2].keyword]

\* C14: the dispatch threads are started in the order in which their
\* utterances arrived; a record is appended to the end of the log when its
\* dispatch completes, so the log is in completion order whatever the
\* arrival order was.
C14_StartsInArrivalOrder ==
  /\ [](\A t1, t2 \in ThreadIds : t1 < t2 => threads[t1].utt < threads[t2].utt)
  /\ [][\A t \in ThreadIds :
          (threads[t].pc = "running" /\ threads'[t].pc = "done")
            => script_log' = Append(script_log, threads'[t].entry[1])]_vars

\* the record of the later utterance stands before the record of the earlier
C14_Witness ==
  /\ Len(threads) >= 2
  /\ threads[1].pc = "done" /\ threads[2].pc = "done"
  /\ threads[1].utt < threads[2].utt
  /\ threads[1].entry # threads[2].entry
  /\ script_log = <<threads[2].entry[1], threads[1].entry[1]>>

\* the records ever appended by the dispatches of k
RECURSIVE AppendedUpTo(_, _)
AppendedUpTo(k, n) ==
  IF n = 0 THEN 0
  ELSE AppendedUpTo(k, n - 1)
       + (IF threads[n].keyword = k THEN threads[n].appended ELSE 0)

AppendedFor(k) == AppendedUpTo(k, Len(threads))

\* C19: for every keyword k, the records ever appended for k are at most the
\* trigger count of k, which is at least the dispatch threads started for k;
\* once every started dispatch has ended and the ingest loop is between two
\* utterances, the three numbers are equal.
C19_RecordsCountsAndThreadsAgree ==
  \A k \in KeySet(keywords) :
    /\ AppendedFor(k) <= keyword_counts[k]
    /\ keyword_counts[k] >= StartedFor(k)
    /\ ((\A t \in ThreadIds : Ended(t)) /\ aw.pc \in {"loop", "closed"}) =>
         /\ AppendedFor(k) = keyword_counts[k]
         /\ keyword_counts[k] = StartedFor(k)

----------------------------------------------------------------------------
(* The test mode (--test) and the demo mode (--demo) *)

Str_browser == <<"b", "r", "o", "w", "s", "e", "r">>
Str_jupyter == <<"j", "u", "p", "y", "t", "e", "r">>
Str_update  == <<"u", "p", "d", "a", "t", "e">>

\* line 244
DemoWords ==
  << <<"h", "e", "l", "l", "o">>,
     <<"w", "o", "r", "l", "d">>,
     <<"t", "e", "s", "t">>,
     Str_browser, Str_jupyter, Str_update,
     <<"s", "y", "s", "t", "e", "m">> >>

\* lines 254-256
DemoLog ==
  << [timestamp |-> "10:15:23", keyword |-> Str_browser, status |-> "SUCCESS",
      rest |-> <<" | Opening browser...">>],
     [timestamp |-> "10:15:45", keyword |-> Str_jupyter, status |-> "SUCCESS",
      rest |-> <<" | Starting Jupyter...">>],
     [timestamp |-> "10:16:12", keyword |-> Str_update, status |-> "SUCCESS",
      rest |-> <<" | System updated">>] >>

\* d[k] = v on a dict: the key is added when it is not there
DictSet(d, k, v) == [x \in DOMAIN d \cup {k} |-> IF x = k THEN v ELSE d[x]]

RECURSIVE DequeExtend(_, _, _)
DequeExtend(d, xs, maxlen) ==
  IF xs = <<>> THEN d
  ELSE DequeExtend(DequeAppend(d, Head(xs), maxlen), Tail(xs), maxlen)

InitModes ==
  /\ Constructed(LiveTable)
  /\ argv = ArgvOf(LiveTable)
  /\ mode \in {"test", "demo"}
  /\ model_exists = TRUE
  /\ device_ok = TRUE
  /\ errors = <<>>
  /\ exit_code = NoExit
  /\ buf_n = <<0, 0>>
  /\ m_text = <<>>
  /\ m_result = NoMatch
  /\ m_pc = "call"

\* lines 319-320, 244-256: demo() writes its simulated data
DemoStart ==
  /\ main_pc = "main"
  /\ mode = "demo"
  /\ recognized_words' = DequeExtend(recognized_words, DemoWords, WordsMaxLen)
  /\ keyword_counts' =
       DictSet(DictSet(DictSet(keyword_counts, Str_browser, 3), Str_jupyter, 1),
               Str_update, 2)
  /\ script_log' = DequeExtend(script_log, DemoLog, LogMaxLen)
  /\ main_pc' = "live"
  /\ UNCHANGED <<keywords, keyword_highlighted, running, now, ui, aw, threads,
                 utterances, seen, buf_n, matchVars, envVars>>

\* lines 305-307: the test mode begins
TestStart ==
  /\ main_pc = "main"
  /\ mode = "test"
  /\ main_pc' = "test"
  /\ UNCHANGED <<keywords, storeVars, running, now, ui, aw, threads,
                 utterances, seen, buf_n, matchVars, envVars>>

\* lines 308-310: execute_script is called for the next keyword, in the main
\* thread; its steps are those of ExecBegin and ExecEnd
TestCall ==
  /\ main_pc = "test"
  /\ Len(threads) < Len(keywords)
  /\ \A t \in 1..Len(threads) : threads[t].pc = "done"
  /\ LET row == keywords[Len(threads) + 1]
     IN threads' = Append(threads, NewThread(row.kw, row.script, 0))
  /\ UNCHANGED <<keywords, storeVars, running, now, main_pc, ui, aw,
                 utterances, seen, buf_n, matchVars, envVars>>

\* lines 314-315: every keyword was tested, main() returns
TestEnd ==
  /\ main_pc = "test"
  /\ Len(threads) = Len(keywords)
  /\ \A t \in 1..Len(threads) : threads[t].pc = "done"
  /\ main_pc' = "exited"
  /\ exit_code' = <<0>>
  /\ UNCHANGED <<keywords, storeVars, running, now, ui, aw, threads,
                 utterances, seen, buf_n, matchVars>>
  /\ UNCHANGED <<argv, mode, model_exists, device_ok, errors>>

\* line 310: an exception that execute_script does not catch leaves main()
TestRaise ==
  /\ main_pc = "test"
  /\ \E t \in 1..Len(threads) : threads[t].pc = "died"
  /\ main_pc' = "exited"
  /\ exit_code' = <<1>>
  /\ UNCHANGED <<keywords, storeVars, running, now, ui, aw, threads,
                 utterances, seen, buf_n, matchVars>>
  /\ UNCHANGED <<argv, mode, model_exists, device_ok, errors>>

Test == TestStart \/ TestCall \/ TestEnd \/ TestRaise

NextModes == Environment \/ Test \/ Dispatch \/ DemoStart \/ Render

SpecModes == InitModes /\ [][NextModes]_vars

\* C15: in every state after construction, in every mode, the keys of the
\* trigger counts and of the last-trigger times are exactly the configured
\* keywords.
C15_KeysAreConfiguredKeywords ==
  /\ DOMAIN keyword_counts = KeySet(keywords)
  /\ DOMAIN keyword_highlighted = KeySet(keywords)

----------------------------------------------------------------------------
(* main() from the command line to the monitor: parse_keywords *)

\* the position of the first c in s, 0 when there is none
RECURSIVE Find(_, _, _)
Find(s, c, i) ==
  IF i > Len(s) THEN 0 ELSE IF s[i] = c THEN i ELSE Find(s, c, i + 1)

\* the position of the last c in s, 0 when there is none
RECURSIVE RFind(_, _, _)
RFind(s, c, i) ==
  IF i < 1 THEN 0 ELSE IF s[i] = c THEN i ELSE RFind(s, c, i - 1)

\* kw_str.rsplit(":", 1)
SplitAtLastColon(kw_str) ==
  LET i == RFind(kw_str, ":", Len(kw_str))
  IN <<SubSeq(kw_str, 1, i - 1), SubSeq(kw_str, i + 1, Len(kw_str))>>

\* line 273: kw_str.split(":", 1), for a kw_str that holds a ':'
SplitAtColon(kw_str) ==
  LET i == Find(kw_str, ":", 1)
  IN <<SubSeq(kw_str, 1, i - 1), SubSeq(kw_str, i + 1, Len(kw_str))>>

\* line 278: keywords[k] = v on a dict, which keeps the place of a key it has
TableSet(kws, k, v) ==
  IF k \in KeySet(kws)
    THEN [i \in 1..Len(kws) |->
            IF kws[i].kw = k THEN [kw |-> k, script |-> v] ELSE kws[i]]
    ELSE Append(kws, [kw |-> k, script |-> v])

\* lines 269-278: the loop; st is the table and the entries reported so far
RECURSIVE ParseLoop(_, _, _)
ParseLoop(keywords_str, i, st) ==
  IF i > Len(keywords_str) THEN st
  ELSE LET kw_str == keywords_str[i]
       IN IF Find(kw_str, ":", 1) = 0
            THEN ParseLoop(keywords_str, i + 1,
                           [st EXCEPT !.invalid = Append(@, kw_str)])
            ELSE LET parts == SplitAtColon(kw_str)
                     script == ResolvePath(Strip(parts[2]))
                 IN ParseLoop(keywords_str, i + 1,
                              [st EXCEPT !.keywords = TableSet(@, Strip(parts[1]), script)])

parse_keywords(keywords_str) ==
  ParseLoop(keywords_str, 1, [keywords |-> <<>>, invalid |-> <<>>])

Msg_no_valid_keywords == <<"No valid keywords specified.">>

Entry_a_x    == <<"a", ":", "x">>
Entry_a_y    == <<" ", "a", " ", ":", " ", "y", " ">>
Entry_b_x_y  == <<"b", ":", "/", "x", ":", "y">>
Entry_b_dotx == <<"b", ":", ".", "/", "x">>
Entry_ab     == <<"a", "b">>
Entry_colon  == <<":">>
Entry_c_z    == <<"c", ":", "/", "z">>

Entries ==
  {Entry_a_x, Entry_a_y, Entry_b_x_y, Entry_b_dotx, Entry_ab, Entry_colon, Entry_c_z}

MaxArgs == 3               \* entries after --keywords

\* main() is at line 294: there is no monitor yet
InitParse ==
  /\ argv \in UNION {[1..n -> Entries] : n \in 1..MaxArgs}
  /\ mode \in {"live", "test", "demo"}
  /\ model_exists = TRUE
  /\ device_ok = TRUE
  /\ errors = <<>>
  /\ exit_code = NoExit
  /\ keywords = <<>>
  /\ running = FALSE
  /\ keyword_counts = <<>>
  /\ keyword_highlighted = <<>>
  /\ recognized_words = <<>>
  /\ script_log = <<>>
  /\ now = StartTime
  /\ main_pc = "args"
  /\ ui = <<>>
  /\ aw = [pc |-> "unstarted", text |-> <<>>, i |-> 0, match |-> NoMatch]
  /\ threads = <<>>
  /\ utterances = <<>>
  /\ seen = {}
  /\ buf_n = <<0, 0>>
  /\ m_text = <<>>
  /\ m_result = NoMatch
  /\ m_pc = "call"

\* lines 296-299: the entries are parsed; without a valid one the process
\* exits with code 1
ParseKeywords ==
  /\ main_pc = "args"
  /\ LET r == parse_keywords(argv)
     IN IF r.keywords = <<>>
          THEN /\ errors' = errors \o r.invalid \o Msg_no_valid_keywords
               /\ main_pc' = "exited"
               /\ exit_code' = <<1>>
               /\ UNCHANGED keywords
          ELSE /\ errors' = errors \o r.invalid
               /\ keywords' = r.keywords
               /\ main_pc' = "parsed"
               /\ UNCHANGED exit_code
  /\ UNCHANGED <<storeVars, running, now, ui, aw, threads, utterances, seen,
                 buf_n, matchVars>>
  /\ UNCHANGED <<argv, mode, model_exists, device_ok>>

\* lines 307, 317: the monitor is constructed over the parsed table
Construct ==
  /\ main_pc = "parsed"
  /\ running' = TRUE
  /\ keyword_counts' = [k \in KeySet(keywords) |-> 0]
  /\ keyword_highlighted' = [k \in KeySet(keywords) |-> 0]
  /\ recognized_words' = <<>>
  /\ script_log' = <<>>
  /\ main_pc' = "main"
  /\ UNCHANGED <<keywords, now, ui, aw, threads, utterances, seen, buf_n,
                 matchVars, envVars>>

NextParse == ParseKeywords \/ Construct

SpecParse == InitParse /\ [][NextParse]_vars

\* the entries of the command line that hold a ':'
HasColon(e) == \E i \in 1..Len(e) : e[i] = ":"

ValidArgs == {i \in 1..Len(argv) : HasColon(argv[i])}

FirstColon(e) == SetMin({i \in 1..Len(e) : e[i] = ":"})

KeywordOf(e) == Strip(SubSeq(e, 1, FirstColon(e) - 1))

CommandOf(e) == Strip(SubSeq(e, FirstColon(e) + 1, Len(e)))

\* the last entry of the command line for keyword k
LastFor(k) == SetMax({i \in ValidArgs : KeywordOf(argv[i]) = k})

\* C16: every entry is cut at its first ':' into keyword and command; an
\* entry without ':' is reported and skipped and the entries after it are
\* still parsed; of several entries for one keyword the last one's command
\* is in the table; without a valid entry the process exits with code 1 and
\* no monitor, thread or command was started.
C16_ParseKeywords ==
  main_pc # "args" =>
    /\ errors = SelectSeq(argv, LAMBDA e : ~HasColon(e))
                 \o (IF ValidArgs = {} THEN Msg_no_valid_keywords ELSE <<>>)
    /\ IF ValidArgs = {}
         THEN /\ main_pc = "exited" /\ exit_code = <<1>>
              /\ keywords = <<>> /\ ~running
              /\ aw.pc = "unstarted" /\ threads = <<>>
         ELSE /\ main_pc # "exited" /\ exit_code = NoExit
              /\ KeySet(keywords) = {KeywordOf(argv[i]) : i \in ValidArgs}
              /\ Len(keywords) = Cardinality(KeySet(keywords))
              /\ \A r \in 1..Len(keywords) :
                    keywords[r].script =
                      ResolvePath(CommandOf(argv[LastFor(keywords[r].kw)]))

\* a table was parsed from a command line with an invalid entry before a
\* valid one, a command that holds a ':', and two entries for one keyword
\* with different commands
C16_Witness ==
  /\ main_pc = "parsed"
  /\ \E i, j \in 1..Len(argv) : i < j /\ ~HasColon(argv[i]) /\ HasColon(argv[j])
  /\ \E i \in ValidArgs : HasColon(CommandOf(argv[i]))
  /\ \E i, j \in ValidArgs :
       /\ i < j
       /\ KeywordOf(argv[i]) = KeywordOf(argv[j])
       /\ CommandOf(argv[i]) # CommandOf(argv[j])

IsAbsolute(p) == p # <<>> /\ Head(p) = "/"

HasDotSlash(p) == Len(p) >= 2 /\ p[1] = "." /\ p[2] = "/"

\* C20: a command path that is absolute or starts with './' is left as it
\* is, any other gets './' put before it once; resolving a resolved path
\* changes nothing, so the path a dispatch resolves again at line 125 and
\* executes is the path stored in the table.
C20_PathResolutionIdempotent ==
  main_pc # "args" =>
    /\ \A i \in ValidArgs :
         LET p == CommandOf(argv[i])
             r == ResolvePath(p)
         IN /\ (IsAbsolute(p) \/ HasDotSlash(p)) => r = p
            /\ ~(IsAbsolute(p) \/ HasDotSlash(p)) => r = <<".", "/">> \o p
            /\ ResolvePath(r) = r
    /\ \A r \in 1..Len(keywords) :
         /\ IsAbsolute(keywords[r].script) \/ HasDotSlash(keywords[r].script)
         /\ ResolvePath(keywords[r].script) = keywords[r].script

\* the table holds a command that got its './' at parsing, a command that
\* came with it, and an absolute one
C20_Witness ==
  /\ main_pc = "parsed"
  /\ \E i, j, k \in ValidArgs :
       /\ ~(IsAbsolute(CommandOf(argv[i])) \/ HasDotSlash(CommandOf(argv[i])))
       /\ HasDotSlash(CommandOf(argv[j]))
       /\ IsAbsolute(CommandOf(argv[k]))
       /\ {i, j, k} \subseteq {LastFor(keywords[r].kw) : r \in 1..Len(keywords)}

----------------------------------------------------------------------------
(* The ingest loop when the audio device fails for good *)

MaxErrors == 2             \* failed reads that are followed

Msg_audio_error == <<"Audio error">>

\* the stream breaks (the device is unplugged): from now on every
\* stream.read raises
DeviceFail ==
  /\ Alive
  /\ aw.pc \notin {"unstarted", "setup"}
  /\ device_ok
  /\ device_ok' = FALSE
  /\ UNCHANGED <<keywords, storeVars, liveVars, buf_n, matchVars>>
  /\ UNCHANGED <<argv, mode, model_exists, errors, exit_code>>

\* lines 75-77, 97-99: the loop test, a read that raises, and the handler,
\* which prints the error and lets the loop go on
AwReadError ==
  /\ Alive
  /\ aw.pc = "loop"
  /\ running
  /\ ~device_ok
  /\ Len(errors) < MaxErrors
  /\ errors' = Append(errors, Msg_audio_error)
  /\ UNCHANGED <<keywords, storeVars, liveVars, buf_n, matchVars>>
  /\ UNCHANGED <<argv, mode, model_exists, device_ok, exit_code>>

NextDevice == Environment \/ RunStart \/ Ingest \/ DeviceFail \/ AwReadError

SpecDevice == Init /\ [][NextDevice]_vars

\* C18: when every further read raises, the ingest path ends: the loop stops
\* at the read that failed, so that no second read fails; the process goes
\* on.
C18_IngestEndsAtDeviceFailure ==
  ~device_ok =>
    /\ Len(errors) <= 1
    /\ Alive => exit_code = NoExit

====
